---------------------------- MODULE Spec2Model ----------------------------
(***************************************************************************)
(* A model of importer.py: the retry wrapper handle_spotify_exception, the *)
(* resolver Importer._import_item, the applier                             *)
(* Importer._add_items_to_spotify, the four category importers driven by   *)
(* Importer.import_all, and the bulk path Importer.import_from_json.       *)
(*                                                                         *)
(* Strings are sequences of code points (32 is a space, 44 a comma, 45 a   *)
(* hyphen).  One step of the model is the end of one wrapped call (for the *)
(* constructor's call, one response to it), together with all the code     *)
(* that runs until the next wrapped call is issued.                        *)
(***************************************************************************)
EXTENDS Integers, Sequences, FiniteSets, TLC

(***************************************************************************)
(* Bounds of the model.                                                    *)
(***************************************************************************)
\* 429 responses the constructor's call to me() may receive
MaxRateLimited == 10
\* references (likes, playlist entries) the source account returns in one run
MaxItems == 2
\* playlists of the source account
MaxPlaylists == 1
\* the tracks of the longest bulk file beyond two chunks
MaxJsonTail == 20
\* the characters of the longest label beyond the limit of 100
MaxOver == 1
\* references the source account returns in a run over several categories
MaxAllItems == 1

(***************************************************************************)
(* Program constants.                                                      *)
(***************************************************************************)
MAX_REQUEST_RETRIES == 5
\* the http status the wrapper retries
RATE_LIMITED == 429
\* len(item_name) > 100, item_name[:100]
NameLimit == 100
\* chunks(spotify_tracks, 50)
ChunkSize == 50
\* sleep(1) after a successful submission
AddPause == 1

(***************************************************************************)
(* Strings.                                                                *)
(***************************************************************************)
CommaSpace == <<44, 32>>
SpaceDashSpace == <<32, 45, 32>>
SpaceStr == <<32>>

\* sep.join(names)
RECURSIVE Join(_, _)
Join(sep, names) ==
    IF names = <<>> THEN <<>>
    ELSE IF Len(names) = 1 THEN names[1]
    ELSE names[1] \o sep \o Join(sep, Tail(names))

\* s.replace('- ', ''): an occurrence starts at every hyphen a space follows (two
\* occurrences cannot overlap), and the characters of no occurrence are kept
StartsDashSpace(s, i) == i >= 1 /\ i < Len(s) /\ s[i] = 45 /\ s[i + 1] = 32

StripDashSpace(s) ==
    LET kept == SelectSeq([i \in 1..Len(s) |-> i],
                          LAMBDA i : ~StartsDashSpace(s, i) /\ ~StartsDashSpace(s, i - 1))
    IN  [k \in 1..Len(kept) |-> s[kept[k]]]

\* item_name[:100] when len(item_name) > 100
Trim(item_name) ==
    IF Len(item_name) > NameLimit THEN SubSeq(item_name, 1, NameLimit) ELSE item_name

(***************************************************************************)
(* The remote service's responses to one attempt of a wrapped call.        *)
(* headers is the set of values of the retry-after header: empty when the  *)
(* response carries none.                                                  *)
(***************************************************************************)
RetryAfterValues == {3}
ErrorStatuses == {400, 503}

NoResponse == [type |-> "", http_status |-> 0, headers |-> {}]
OkResponse == [type |-> "ok", http_status |-> 200, headers |-> {}]
TimeoutResponse == [type |-> "ReadTimeout", http_status |-> 0, headers |-> {}]
RateLimitedResponses ==
    {[type |-> "SpotifyException", http_status |-> RATE_LIMITED, headers |-> h] :
        h \in {{}} \cup {{r} : r \in RetryAfterValues}}
ErrorResponses ==
    {[type |-> "SpotifyException", http_status |-> s, headers |-> {}] : s \in ErrorStatuses}
Responses == {OkResponse, TimeoutResponse} \cup RateLimitedResponses \cup ErrorResponses

(***************************************************************************)
(* handle_spotify_exception: what one pass of the wrapper's while loop     *)
(* does with the response to the wrapped call, given the counter retry.   *)
(* outcome is "return" (func returned), "raise" (the exception leaves the  *)
(* wrapper) or "again" (the loop runs func once more); sleep is the        *)
(* seconds slept before that.                                              *)
(***************************************************************************)
\* a wrapper that gives up one timeout early
RetryExhaustedEarly(retry_) == retry_ >= MAX_REQUEST_RETRIES
\* if retry > MAX_REQUEST_RETRIES
RetryExhausted(retry_) == retry_ > MAX_REQUEST_RETRIES

\* a wrapper that sleeps the advised seconds and no more
RateLimitSleepAdvised(headers) ==
    IF headers # {} THEN CHOOSE r \in headers : TRUE ELSE 0
\* if 'retry-after' in exception.headers: sleep(int(exception.headers['retry-after']) + 1)
RateLimitSleep(headers) ==
    IF headers # {} THEN (CHOOSE r \in headers : TRUE) + 1 ELSE 0

\* a wrapper that retries every error of the remote service
IsRetriedStatusAny(http_status) == http_status >= 400
\* if exception.http_status != 429: raise exception
IsRetriedStatus(http_status) == http_status = RATE_LIMITED

handle_spotify_exception(retry_, response) ==
    CASE response.type = "ok" ->
            [outcome |-> "return", retry |-> retry_, sleep |-> 0]
      [] response.type = "SpotifyException" ->
            IF ~IsRetriedStatus(response.http_status)
            THEN [outcome |-> "raise", retry |-> retry_, sleep |-> 0]
            ELSE [outcome |-> "again", retry |-> retry_,
                  sleep |-> RateLimitSleep(response.headers)]
      [] response.type = "ReadTimeout" ->
            IF RetryExhausted(retry_)
            THEN [outcome |-> "raise", retry |-> retry_, sleep |-> 0]
            ELSE [outcome |-> "again", retry |-> retry_ + 1, sleep |-> 0]

(***************************************************************************)
(* wrapper(): the whole loop, over the responses the attempts of one call  *)
(* meet.  The call ends at the first response that returns or raises;      *)
(* outcome is "again" when the responses run out before that.              *)
(***************************************************************************)
RECURSIVE RunWrapper(_, _)
RunWrapper(retry_, responses) ==
    IF responses = <<>> THEN [outcome |-> "again", exception |-> ""]
    ELSE LET o == handle_spotify_exception(retry_, Head(responses))
         IN  IF o.outcome = "again" THEN RunWrapper(o.retry, Tail(responses))
             ELSE [outcome |-> o.outcome,
                   exception |-> IF o.outcome = "raise" THEN Head(responses).type ELSE ""]

\* the responses one call may meet: ReadTimeouts, then a 429 or none, then the
\* response meant to end the call
ResponseRuns ==
    {[i \in 1..k |-> TimeoutResponse] \o mid \o <<last>> :
        k \in 0..(MAX_REQUEST_RETRIES + 1),
        mid \in {<<>>} \cup {<<r>> : r \in RateLimitedResponses},
        last \in Responses \ RateLimitedResponses}

\* how a wrapped call can end
CallOutcomes ==
    {RunWrapper(1, responses) : responses \in ResponseRuns} \
        {[outcome |-> "again", exception |-> ""]}


(***************************************************************************)
(* Source entities.  A Track or an Album has artists (their names) and a   *)
(* title, an Artist has a name, and a str is a query read from the JSON    *)
(* file (kept in name).  ts is no attribute of the program's object: it    *)
(* remembers the timestamp of the source reference the entity came with.   *)
(***************************************************************************)
Entity(cls, id, name, artists, title, available) ==
    [cls |-> cls, id |-> id, name |-> name, artists |-> artists, title |-> title,
     available |-> available, ts |-> 0]

Str(query) == Entity("str", 0, query, <<>>, <<>>, FALSE)

\* isinstance(item, str), isinstance(item, Artist)
IsStr(item) == item.cls = "str"
IsArtist(item) == item.cls = "Artist"

\* item.__class__.__name__.casefold(), 'track' for a string
TypeOf(item) ==
    CASE item.cls = "str" -> "track"
      [] item.cls = "Track" -> "track"
      [] item.cls = "Album" -> "album"
      [] item.cls = "Artist" -> "artist"

\* the label before it is trimmed
FullName(item) ==
    IF IsArtist(item) THEN item.name
    ELSE Join(CommaSpace, item.artists) \o SpaceDashSpace \o item.title

\* item_name of _import_item
ItemName(item) == IF IsStr(item) THEN item.name ELSE Trim(FullName(item))

\* artists of _import_item
ArtistsOf(item) == IF IsStr(item) \/ IsArtist(item) THEN <<>> ELSE item.artists

\* query of the first search
FirstQuery(item) == IF IsStr(item) THEN item.name ELSE StripDashSpace(ItemName(item))

\* query of the second search: f'{artists[0].name} {item.title}'
FallbackQuery(item) == ArtistsOf(item)[1] \o SpaceStr \o item.title

\* a resolver that falls back in strict mode too
NeedsFallbackWhenStrict(strict, item, found_items) ==
    /\ ~IsArtist(item)
    /\ Len(found_items) = 0
    /\ Len(ArtistsOf(item)) > 1
\* the condition of the second search
NeedsFallback(strict, item, found_items) ==
    /\ ~strict
    /\ ~IsArtist(item)
    /\ Len(found_items) = 0
    /\ Len(ArtistsOf(item)) > 1

\* item.title if hasattr(item, 'title') else str(item): an Artist has no title, and
\* str(item) is modelled by its name
TitleOrStr(item) == IF IsArtist(item) THEN item.name ELSE item.title

(***************************************************************************)
(* The destination's catalogue.  A search returns no hit, or a hit whose   *)
(* id is that of the query (a hit of the search endpoint always carries an *)
(* id, so the None that _add_items_to_spotify tests for is never seen).    *)
(* An identifier is the code point 35 followed by the query it answers, so *)
(* that no identifier is a label.  When the catalogue is fixed (the bulk   *)
(* import, whose files are long), missing holds the queries without a hit  *)
(* and every other query has one.                                          *)
(***************************************************************************)
NoneId == <<>>
SpotifyId(query) == <<35>> \o query
Hit(id) == <<[id |-> id]>>

SearchResults(catalogue_, query) ==
    IF catalogue_.fixed
    THEN IF query \in catalogue_.missing THEN {<<>>} ELSE {Hit(SpotifyId(query))}
    ELSE {<<>>, Hit(SpotifyId(query))}

\* whether the search of query can end this way: when the catalogue is fixed, failing
\* holds the queries whose search raises a SpotifyException, and no other search does
SearchCanEnd(catalogue_, query, o) ==
    \/ ~catalogue_.fixed
    \/ o.exception = "ReadTimeout"
    \/ (o.exception = "SpotifyException") = (query \in catalogue_.failing)

(***************************************************************************)
(* list.sort(key=lambda x: x.timestamp if hasattr(x, 'timestamp') else 0): *)
(* a stable sort in ascending order.  timestamp is the set of the          *)
(* attribute's values: empty when the object has none.                     *)
(***************************************************************************)
HasTimestamp(x) == x.timestamp # {}
TimestampOf(x) == CHOOSE t \in x.timestamp : TRUE
SortKey(x) == IF HasTimestamp(x) THEN TimestampOf(x) ELSE 0

\* the place of lst[i] after the sort: behind the elements of a smaller key and the
\* earlier elements of the same key
SortedPlace(lst, i) ==
    1 + Cardinality({j \in 1..Len(lst) :
                        \/ SortKey(lst[j]) < SortKey(lst[i])
                        \/ SortKey(lst[j]) = SortKey(lst[i]) /\ j < i})

SortByTimestamp(lst) ==
    LET place == [i \in 1..Len(lst) |-> SortedPlace(lst, i)]
    IN  [p \in 1..Len(lst) |-> lst[CHOOSE i \in 1..Len(lst) : place[i] = p]]

\* if lst and hasattr(lst[0], 'timestamp'): lst.sort(...)
SortIfTimestamped(lst) ==
    IF lst # <<>> /\ HasTimestamp(lst[1]) THEN SortByTimestamp(lst) ELSE lst

(***************************************************************************)
(* Sequence helpers.                                                       *)
(***************************************************************************)
Permutations_(n) == {p \in [1..n -> 1..n] : \A i, j \in 1..n : p[i] = p[j] => i = j}

\* chunks(lst, n): lst[i:i + n] for i in range(0, len(lst), n)
ChunkStarts(len, n) == {i \in 0..(len - 1) : i % n = 0}
\* a chunking that leaves out the last chunk when it is short
chunksFull(lst, n) ==
    [k \in 1..(Len(lst) \div n) |-> SubSeq(lst, (k - 1) * n + 1, k * n)]
chunks(lst, n) ==
    [k \in 1..Cardinality(ChunkStarts(Len(lst), n)) |->
        SubSeq(lst, (k - 1) * n + 1, IF k * n < Len(lst) THEN k * n ELSE Len(lst))]


(***************************************************************************)
(* The state.                                                              *)
(*                                                                         *)
(* Of the program: mode (which entry point main runs: "all" for            *)
(* import_all, "json" for import_from_json, "item" for one call of         *)
(* _import_item), strict_search, user, pc (the wrapped call in flight, or  *)
(* "import_all", "import_from_json", "constructed", "done", "failed"),     *)
(* retry (the wrapper's counter), importing_items with cat (the position   *)
(* of import_all's loop), not_imported, playlists with pl (the position of *)
(* import_playlists' loop) and playlist_id, the locals of                  *)
(* _add_items_to_spotify (items, idx, spotify_items, section, api_method,  *)
(* add_i), of import_playlists (all_tracks, empty when no bulk fetch was   *)
(* made for the playlist) and of import_from_json (tracks, idx,            *)
(* spotify_tracks, json_not_imported, chunks_list, chunk_i).               *)
(*                                                                         *)
(* Of the observer: slept (the seconds the program slept since the last    *)
(* response), and for the calls followed response by response: response    *)
(* (the last response the wrapper handled), rate_limited and timeouts (the *)
(* 429 and ReadTimeout responses the call in flight received) and          *)
(* earlier_timeouts (the ReadTimeout responses of the calls before it);    *)
(* call (the site of the wrapped call in flight, or of the last one), ran  *)
(* (the category importers import_all has called, in order), error (the    *)
(* exception that reached main), searches and results (the queries searched for the current item  *)
(* and what each search returned), resolution (what became of each item    *)
(* the first loop went past: "skipped", "resolved", or the exception       *)
(* caught), spotify_src (for each of spotify_items, the index in items it  *)
(* was resolved from), mutations (the mutation calls that ended, in        *)
(* order), created (the playlists created), remaining (the source          *)
(* references the account may still return) and catalogue.                 *)
(***************************************************************************)
VARIABLES
    mode,
    strict_search,
    user,
    pc,
    retry,
    importing_items,
    cat,
    not_imported,
    playlists,
    pl,
    playlist_id,
    items,
    idx,
    spotify_items,
    section,
    api_method,
    add_i,
    all_tracks,
    tracks,
    spotify_tracks,
    json_not_imported,
    chunks_list,
    chunk_i,
    slept,
    response,
    rate_limited,
    timeouts,
    earlier_timeouts,
    call,
    ran,
    error,
    searches,
    results,
    resolution,
    spotify_src,
    mutations,
    created,
    remaining,
    catalogue

vars ==
    <<mode, strict_search, user, pc, retry, importing_items,
      cat, not_imported, playlists, pl, playlist_id, items,
      idx, spotify_items, section, api_method, add_i, all_tracks,
      tracks, spotify_tracks, json_not_imported, chunks_list, chunk_i, slept,
      response, rate_limited, timeouts, earlier_timeouts, call, ran,
      error, searches, results, resolution, spotify_src, mutations,
      created, remaining, catalogue>>

\* the state as a record, and the state a record describes
Cur ==
    [mode |-> mode,
     strict_search |-> strict_search,
     user |-> user,
     pc |-> pc,
     retry |-> retry,
     importing_items |-> importing_items,
     cat |-> cat,
     not_imported |-> not_imported,
     playlists |-> playlists,
     pl |-> pl,
     playlist_id |-> playlist_id,
     items |-> items,
     idx |-> idx,
     spotify_items |-> spotify_items,
     section |-> section,
     api_method |-> api_method,
     add_i |-> add_i,
     all_tracks |-> all_tracks,
     tracks |-> tracks,
     spotify_tracks |-> spotify_tracks,
     json_not_imported |-> json_not_imported,
     chunks_list |-> chunks_list,
     chunk_i |-> chunk_i,
     slept |-> slept,
     response |-> response,
     rate_limited |-> rate_limited,
     timeouts |-> timeouts,
     earlier_timeouts |-> earlier_timeouts,
     call |-> call,
     ran |-> ran,
     error |-> error,
     searches |-> searches,
     results |-> results,
     resolution |-> resolution,
     spotify_src |-> spotify_src,
     mutations |-> mutations,
     created |-> created,
     remaining |-> remaining,
     catalogue |-> catalogue]

Set(s) ==
    /\ mode' = s.mode
    /\ strict_search' = s.strict_search
    /\ user' = s.user
    /\ pc' = s.pc
    /\ retry' = s.retry
    /\ importing_items' = s.importing_items
    /\ cat' = s.cat
    /\ not_imported' = s.not_imported
    /\ playlists' = s.playlists
    /\ pl' = s.pl
    /\ playlist_id' = s.playlist_id
    /\ items' = s.items
    /\ idx' = s.idx
    /\ spotify_items' = s.spotify_items
    /\ section' = s.section
    /\ api_method' = s.api_method
    /\ add_i' = s.add_i
    /\ all_tracks' = s.all_tracks
    /\ tracks' = s.tracks
    /\ spotify_tracks' = s.spotify_tracks
    /\ json_not_imported' = s.json_not_imported
    /\ chunks_list' = s.chunks_list
    /\ chunk_i' = s.chunk_i
    /\ slept' = s.slept
    /\ response' = s.response
    /\ rate_limited' = s.rate_limited
    /\ timeouts' = s.timeouts
    /\ earlier_timeouts' = s.earlier_timeouts
    /\ call' = s.call
    /\ ran' = s.ran
    /\ error' = s.error
    /\ searches' = s.searches
    /\ results' = s.results
    /\ resolution' = s.resolution
    /\ spotify_src' = s.spotify_src
    /\ mutations' = s.mutations
    /\ created' = s.created
    /\ remaining' = s.remaining
    /\ catalogue' = s.catalogue

Is(s) ==
    /\ mode = s.mode
    /\ strict_search = s.strict_search
    /\ user = s.user
    /\ pc = s.pc
    /\ retry = s.retry
    /\ importing_items = s.importing_items
    /\ cat = s.cat
    /\ not_imported = s.not_imported
    /\ playlists = s.playlists
    /\ pl = s.pl
    /\ playlist_id = s.playlist_id
    /\ items = s.items
    /\ idx = s.idx
    /\ spotify_items = s.spotify_items
    /\ section = s.section
    /\ api_method = s.api_method
    /\ add_i = s.add_i
    /\ all_tracks = s.all_tracks
    /\ tracks = s.tracks
    /\ spotify_tracks = s.spotify_tracks
    /\ json_not_imported = s.json_not_imported
    /\ chunks_list = s.chunks_list
    /\ chunk_i = s.chunk_i
    /\ slept = s.slept
    /\ response = s.response
    /\ rate_limited = s.rate_limited
    /\ timeouts = s.timeouts
    /\ earlier_timeouts = s.earlier_timeouts
    /\ call = s.call
    /\ ran = s.ran
    /\ error = s.error
    /\ searches = s.searches
    /\ results = s.results
    /\ resolution = s.resolution
    /\ spotify_src = s.spotify_src
    /\ mutations = s.mutations
    /\ created = s.created
    /\ remaining = s.remaining
    /\ catalogue = s.catalogue

(***************************************************************************)
(* Control flow between two wrapped calls, as functions of the state.      *)
(***************************************************************************)
UserId == <<117>>
NoPlaylist == 0
CallSites ==
    {"me", "search", "fallback", "create", "cover", "add", "json_create", "json_add"}

\* a wrapper whose counter outlives the call
BeginCallSameCounter(s, site) ==
    [s EXCEPT !.pc = site, !.call = site, !.rate_limited = 0, !.timeouts = 0,
              !.earlier_timeouts = @ + s.timeouts]
\* wrapper(): retry = 1, then the first attempt
BeginCall(s, site) ==
    [s EXCEPT !.pc = site, !.call = site, !.retry = 1, !.rate_limited = 0, !.timeouts = 0,
              !.earlier_timeouts = @ + s.timeouts]

\* the exception reaches main's except clause
Fail(s, exception) == [s EXCEPT !.pc = "failed", !.error = exception]

\* not_imported_section.append(label)
RecordNotImported(s, label) ==
    [s EXCEPT !.not_imported[s.section] = Append(@, label)]

\* query = f'{track["artist"]} {track["track"]}'
JsonQuery(track) == track.artist \o SpaceStr \o track.track

\* the argument of the _import_item call in progress
CurItem(s) ==
    IF s.mode = "json" THEN Str(JsonQuery(s.tracks[s.idx])) ELSE s.items[s.idx]

\* _import_item(item) up to its first search
BeginImportItem(s, k) ==
    LET t == [s EXCEPT !.idx = k]
    IN  [BeginCall(t, "search") EXCEPT !.searches = <<FirstQuery(CurItem(t))>>,
                                       !.results = <<>>]

\* a loop that passes over the category after the one that returned
NextCategorySkips(s) == [s EXCEPT !.pc = "import_all", !.cat = s.cat + 2]
\* import_all's loop moves to the next category
NextCategory(s) == [s EXCEPT !.pc = "import_all", !.cat = s.cat + 1]

\* import_playlists' loop at playlist k: user_playlist_create, or the end of the loop
NextPlaylist(s, k) ==
    IF k <= Len(s.playlists)
    THEN [BeginCall(s, "create") EXCEPT !.pl = k]
    ELSE NextCategory([s EXCEPT !.pl = k])

\* _add_items_to_spotify returns to the category importer that called it; the turn of
\* import_playlists' loop ends and its all_tracks with it
EndAddItems(s) ==
    IF s.api_method = "playlist_tracks"
    THEN NextPlaylist([s EXCEPT !.all_tracks = <<>>], s.pl + 1)
    ELSE NextCategory(s)

\* the second loop of _add_items_to_spotify at item i
AddLoop(s, i) ==
    IF i <= Len(s.spotify_items)
    THEN [BeginCall(s, "add") EXCEPT !.add_i = i]
    ELSE EndAddItems([s EXCEPT !.add_i = i])

\* an applier that gives the batch up at the first failure
AddFailedAborts(s, item_id) == EndAddItems(RecordNotImported(s, item_id))
\* except Exception as e: not_imported_section.append(item_id), then the next item
AddFailed(s, item_id) == AddLoop(RecordNotImported(s, item_id), s.add_i + 1)

\* an applier that issues the next call at once
AddSucceededNoPause(s) == AddLoop(s, s.add_i + 1)
\* the mutation call returned: sleep(1), then the next item
AddSucceeded(s) == AddLoop([s EXCEPT !.slept = AddPause], s.add_i + 1)

\* if not spotify_items: return
AfterResolve(s) == IF s.spotify_items = <<>> THEN EndAddItems(s) ELSE AddLoop(s, 1)

\* if not item.available
Processed(item) == ~item.available

RECURSIVE NextProcessed(_, _)
NextProcessed(lst, j) ==
    IF j > Len(lst) THEN j
    ELSE IF Processed(lst[j]) THEN j
    ELSE NextProcessed(lst, j + 1)

\* the first loop of _add_items_to_spotify from item j on
ResolveLoop(s, j) ==
    LET k == NextProcessed(s.items, j)
        t == [s EXCEPT !.resolution = @ \o [i \in 1..(k - j) |-> "skipped"]]
    IN  IF k <= Len(s.items) THEN BeginImportItem(t, k)
        ELSE AfterResolve([t EXCEPT !.idx = k])

\* _add_items_to_spotify(items, not_imported_section, None, api_method, playlist_id)
AddItemsToSpotify(s, items_, section_, api_method_) ==
    ResolveLoop([s EXCEPT !.items = items_, !.section = section_,
                          !.api_method = api_method_, !.spotify_items = <<>>,
                          !.spotify_src = <<>>, !.resolution = <<>>, !.add_i = 0], 1)

\* import_from_json's loop over tracks from track j on, then user_playlist_create
JsonLoop(s, j) ==
    IF j <= Len(s.tracks) THEN BeginImportItem(s, j)
    ELSE BeginCall([s EXCEPT !.idx = j], "json_create")

\* the chunk loop of import_from_json at chunk k
ChunkLoop(s, k) ==
    IF k <= Len(s.chunks_list)
    THEN [BeginCall(s, "json_add") EXCEPT !.chunk_i = k]
    ELSE [s EXCEPT !.chunk_i = k, !.pc = "done"]

\* the caller of _import_item got id back
Resolved(s, id) ==
    LET t == [s EXCEPT !.resolution = Append(@, "resolved")]
    IN  CASE s.mode = "all" ->
                IF id = NoneId THEN ResolveLoop(t, s.idx + 1)
                ELSE ResolveLoop([t EXCEPT !.spotify_items = Append(@, id),
                                           !.spotify_src = Append(@, s.idx)], s.idx + 1)
          [] s.mode = "json" ->
                JsonLoop([t EXCEPT !.spotify_tracks = Append(@, id)], s.idx + 1)
          [] s.mode = "item" ->
                [t EXCEPT !.spotify_items = <<id>>, !.pc = "done"]

\* callers that catch nothing
NotResolvedAborts(s, exception) == Fail(s, exception)
\* callers that catch a ReadTimeout as they catch a SpotifyException
NotResolvedCatchesTimeout(s, exception) ==
    LET t == [s EXCEPT !.resolution = Append(@, exception)]
    IN  IF s.mode = "all" /\ exception = "NotFoundException"
        THEN ResolveLoop(RecordNotImported(t, ItemName(CurItem(s))), s.idx + 1)
        ELSE IF s.mode = "all"
        THEN ResolveLoop(RecordNotImported(t, TitleOrStr(CurItem(s))), s.idx + 1)
        ELSE Fail(s, exception)
\* callers that record the label whatever the exception they catch
NotResolvedLabelled(s, exception) ==
    LET t == [s EXCEPT !.resolution = Append(@, exception)]
    IN  IF s.mode = "all" /\ exception \in {"NotFoundException", "SpotifyException"}
        THEN ResolveLoop(RecordNotImported(t, ItemName(CurItem(s))), s.idx + 1)
        ELSE Fail(s, exception)
\* the caller of _import_item got exception: the except clauses of
\* _add_items_to_spotify and of import_from_json; a ReadTimeout is caught by neither
NotResolved(s, exception) ==
    LET t == [s EXCEPT !.resolution = Append(@, exception)]
    IN  CASE s.mode = "all" ->
                IF exception = "NotFoundException"
                THEN ResolveLoop(RecordNotImported(t, ItemName(CurItem(s))), s.idx + 1)
                ELSE IF exception = "SpotifyException"
                THEN ResolveLoop(RecordNotImported(t, TitleOrStr(CurItem(s))), s.idx + 1)
                ELSE Fail(s, exception)
          [] s.mode = "json" ->
                IF exception = "NotFoundException"
                THEN JsonLoop([t EXCEPT !.json_not_imported =
                                            Append(@, ItemName(CurItem(s)))], s.idx + 1)
                ELSE IF exception = "SpotifyException"
                THEN JsonLoop([t EXCEPT !.json_not_imported =
                                            Append(@, JsonQuery(s.tracks[s.idx]))], s.idx + 1)
                ELSE Fail(s, exception)
          [] s.mode = "item" -> Fail(s, exception)

\* _import_item from its last search's result on
Found(s, found_items) ==
    LET t == [s EXCEPT !.results = Append(@, found_items)]
    IN  IF Len(found_items) = 0 THEN NotResolved(t, "NotFoundException")
        ELSE Resolved(t, found_items[1].id)

\* _import_item from its first search's result on
Searched(s, found_items) ==
    IF NeedsFallback(s.strict_search, CurItem(s), found_items)
    THEN [BeginCall(s, "fallback") EXCEPT
              !.searches = Append(@, FallbackQuery(CurItem(s))),
              !.results = Append(@, found_items)]
    ELSE Found(s, found_items)


(***************************************************************************)
(* The source account.  A reference (a like, a playlist entry) carries a   *)
(* timestamp and its entity; a liked track's reference may lack album_id.  *)
(***************************************************************************)
NameA == <<65>>
NameB == <<66>>
TitleX == <<88>>
TitleY == <<89>>

SourceTracks ==
    {Entity("Track", 1, <<>>, <<NameA>>, TitleX, FALSE),
     Entity("Track", 2, <<>>, <<NameA, NameB>>, TitleY, FALSE),
     Entity("Track", 3, <<>>, <<NameB>>, TitleX, TRUE)}
SourceAlbums ==
    {Entity("Album", 4, <<>>, <<NameA, NameB>>, TitleX, FALSE),
     Entity("Album", 5, <<>>, <<NameA>>, TitleY, TRUE)}
SourceArtists ==
    {Entity("Artist", 6, NameA, <<>>, <<>>, FALSE),
     Entity("Artist", 7, NameB, <<>>, <<>>, TRUE)}

Timestamps == {1, 2}

RefsTo(entities) ==
    {[timestamp |-> {t}, album_id |-> TRUE, ent |-> e] : t \in Timestamps, e \in entities}

SeqsUpTo(S, n) == UNION {[1..k -> S] : k \in 0..n}

DistinctIds(refs) ==
    \A i, j \in 1..Len(refs) : refs[i].ent.id = refs[j].ent.id => i = j

\* users_likes_tracks().tracks: a track is liked once
LikesLists(n) ==
    {refs \in SeqsUpTo(RefsTo(SourceTracks) \cup
                       {[timestamp |-> {1}, album_id |-> FALSE,
                         ent |-> Entity("Track", 1, <<>>, <<NameA>>, TitleX, FALSE)]}, n) :
        DistinctIds(refs)}
\* users_likes_albums(), users_likes_artists()
AlbumLists(n) == {refs \in SeqsUpTo(RefsTo(SourceAlbums), n) : DistinctIds(refs)}
ArtistLists(n) == {refs \in SeqsUpTo(RefsTo(SourceArtists), n) : DistinctIds(refs)}

\* the playlists' titles, covers (of type 'pic' or none) and kinds
PlaylistShapes ==
    {[title |-> "Likes", cover |-> TRUE, collective |-> FALSE],
     [title |-> "Mix", cover |-> FALSE, collective |-> TRUE]}
Playlists(n) ==
    {[title |-> p.title, cover |-> p.cover, collective |-> p.collective, tracks |-> refs] :
        p \in PlaylistShapes, refs \in SeqsUpTo(RefsTo(SourceTracks), n)}

\* users_playlists_list(): at most count playlists holding at most n tracks together
RECURSIVE PlaylistLists(_, _)
PlaylistLists(count, n) ==
    IF count = 0 THEN {<<>>}
    ELSE {<<>>} \cup
         UNION {{<<p>> \o rest : rest \in PlaylistLists(count - 1, n - Len(p.tracks))} :
                    p \in Playlists(n)}

RECURSIVE TotalTracks(_)
TotalTracks(lists) ==
    IF lists = <<>> THEN 0 ELSE Len(lists[1].tracks) + TotalTracks(Tail(lists))

\* the entity of a reference, remembering the reference's timestamp
ItemOf(ref) == [ref.ent EXCEPT !.ts = SortKey(ref)]
ItemsOf(refs) == [i \in 1..Len(refs) |-> ItemOf(refs[i])]

\* yandex_client.tracks(track_ids): the source returns the requested tracks in the
\* order it likes, order being a permutation of the request
BulkFetch(requested, order) == [i \in 1..Len(requested) |-> requested[order[i]]]

\* [f'{track.id}:{track.album_id}' for track in likes_tracks if track.album_id]
WithAlbum(refs) == SelectSeq(refs, LAMBDA r : r.album_id)

\* tracks of import_likes
LikedTracks(likes_tracks, order) ==
    ItemsOf(BulkFetch(WithAlbum(SortIfTimestamped(likes_tracks)), order))

\* tracks_map.get(str(track_id)): a later track of all_tracks replaces an earlier one
TracksMapGet(all_tracks_, track_id) ==
    LET js == {j \in 1..Len(all_tracks_) : all_tracks_[j].ent.id = track_id}
    IN  all_tracks_[CHOOSE j \in js : \A k \in js : k <= j].ent

\* a list left in the order the bulk fetch returned
RebuildAsFetched(playlist_tracks, all_tracks_) ==
    [i \in 1..Len(playlist_tracks) |->
        [all_tracks_[i].ent EXCEPT !.ts = SortKey(playlist_tracks[i])]]
\* the rebuilt list of a collective playlist
Rebuild(playlist_tracks, all_tracks_) ==
    [i \in 1..Len(playlist_tracks) |->
        [TracksMapGet(all_tracks_, playlist_tracks[i].ent.id) EXCEPT
            !.ts = SortKey(playlist_tracks[i])]]

\* tracks of import_playlists for one playlist
PlaylistTracks(playlist, order) ==
    LET playlist_tracks == SortIfTimestamped(playlist.tracks)
    IN  IF ~playlist.collective THEN ItemsOf(playlist_tracks)
        ELSE IF playlist_tracks # <<>>
        THEN Rebuild(playlist_tracks, BulkFetch(playlist_tracks, order))
        ELSE <<>>

\* all_tracks of import_playlists for one playlist
AllTracks(playlist, order) ==
    IF playlist.collective /\ playlist.tracks # <<>>
    THEN LET fetched == BulkFetch(SortIfTimestamped(playlist.tracks), order)
         IN  [i \in 1..Len(fetched) |-> fetched[i].ent]
    ELSE <<>>

\* the orders the bulk fetch of playlist may come back in (one when it is not made)
BulkOrders(playlist) ==
    IF playlist.collective THEN Permutations_(Len(playlist.tracks))
    ELSE {[i \in 1..Len(playlist.tracks) |-> i]}

\* self.not_imported[key] = []
ResetSection(s, key) ==
    [s EXCEPT !.not_imported = [k \in DOMAIN @ \cup {key} |-> IF k = key THEN <<>> ELSE @[k]]]

\* spotify_playlist_id = spotify_playlist['id']
Created(s) ==
    LET id == Len(s.created) + 1
    IN  [s EXCEPT !.playlist_id = id,
                  !.created = Append(@, [title |-> s.playlists[s.pl].title, id |-> id])]

\* import_playlists, from self.not_imported[playlist.title] = [] on
ImportPlaylistTracks(s, order) ==
    LET playlist == s.playlists[s.pl]
        t == [s EXCEPT !.all_tracks = AllTracks(playlist, order)]
    IN  AddItemsToSpotify(ResetSection(t, playlist.title), PlaylistTracks(playlist, order),
                          playlist.title, "playlist_tracks")

(***************************************************************************)
(* The bulk file: an array of {artist, track, timestamp?}.  The code point *)
(* of a track's name is 1000 plus its position in the file.                *)
(***************************************************************************)
JsonTrack(i, timestamp) == [artist |-> NameA, track |-> <<1000 + i>>, timestamp |-> timestamp]

\* files of n tracks: without timestamps, and with timestamps newest first
JsonFilesOfSize(n) ==
    {[i \in 1..n |-> JsonTrack(i, {})], [i \in 1..n |-> JsonTrack(i, {n + 1 - i})]}

JsonSizes ==
    {0, 1, ChunkSize - 1, ChunkSize, ChunkSize + 1, 2 * ChunkSize + MaxJsonTail}

JsonFiles == UNION {JsonFilesOfSize(n) : n \in JsonSizes}

\* tracks.sort(key=lambda x: x.get('timestamp', 0)) if tracks and 'timestamp' in tracks[0]
SortJson(file) == SortIfTimestamped(file)


(***************************************************************************)
(* The wrapper meets a response.                                           *)
(***************************************************************************)
Outcome(response_) == handle_spotify_exception(retry, response_)

IsRateLimited(response_) ==
    response_.type = "SpotifyException" /\ response_.http_status = RATE_LIMITED

\* the state once the wrapper has handled response
Seen(response_) ==
    [Cur EXCEPT !.retry = Outcome(response_).retry,
                !.slept = Outcome(response_).sleep,
                !.response = response_,
                !.rate_limited = IF IsRateLimited(response_) THEN @ + 1 ELSE @,
                !.timeouts = IF response_.type = "ReadTimeout" THEN @ + 1 ELSE @]

\* the state once a wrapped call has ended
Called == [Cur EXCEPT !.slept = 0]

\* the mutation endpoint of api_method
Endpoint(api_method_) ==
    CASE api_method_ = "tracks" -> "current_user_saved_tracks_add"
      [] api_method_ = "playlist_tracks" -> "user_playlist_add_tracks"
      [] api_method_ = "albums" -> "current_user_saved_albums_add"
      [] api_method_ = "artists" -> "user_follow_artists"

\* a call that adds to the playlist created first
ItemMutationToFirst(s, ok) ==
    [endpoint |-> Endpoint(s.api_method),
     playlist_id |-> IF s.api_method = "playlist_tracks" THEN 1 ELSE NoPlaylist,
     ids |-> <<s.spotify_items[s.add_i]>>,
     src |-> s.spotify_src[s.add_i],
     ok |-> ok]
\* the mutation call of _add_items_to_spotify in flight, as it ended
ItemMutation(s, ok) ==
    [endpoint |-> Endpoint(s.api_method),
     playlist_id |-> IF s.api_method = "playlist_tracks" THEN s.playlist_id ELSE NoPlaylist,
     ids |-> <<s.spotify_items[s.add_i]>>,
     src |-> s.spotify_src[s.add_i],
     ok |-> ok]

\* the chunk call of import_from_json in flight, as it ended
ChunkMutation(s, ok) ==
    [endpoint |-> "user_playlist_add_tracks", playlist_id |-> s.playlist_id,
     ids |-> s.chunks_list[s.chunk_i], src |-> 0, ok |-> ok]

(***************************************************************************)
(* The constructor's call of me(), response by response.                   *)
(***************************************************************************)
\* the wrapper's loop goes round: a 429, or a ReadTimeout within the retries
TryAgain ==
    \E r \in Responses :
        /\ pc = "me"
        /\ Outcome(r).outcome = "again"
        /\ IsRateLimited(r) => rate_limited < MaxRateLimited
        /\ Set(Seen(r))

\* __init__: self.user = handle_spotify_exception(spotify_client.me)()['id']
MeReturns ==
    \E r \in Responses :
        /\ pc = "me"
        /\ Outcome(r).outcome = "return"
        /\ Set([Seen(r) EXCEPT !.user = UserId, !.pc = "constructed"])

\* the exception leaves the wrapper and the constructor
MeRaises ==
    \E r \in Responses :
        /\ pc = "me"
        /\ Outcome(r).outcome = "raise"
        /\ Set(Fail(Seen(r), r.type))

\* main: import_all() on the constructed Importer
Main ==
    /\ pc = "constructed"
    /\ Set([Cur EXCEPT !.pc = "import_all"])

\* the wrapper's loop goes round in user_playlist_create
CreateTriesAgain ==
    \E r \in Responses :
        /\ pc = "create"
        /\ Outcome(r).outcome = "again"
        /\ IsRateLimited(r) => rate_limited < MaxRateLimited
        /\ Set(Seen(r))

\* user_playlist_create answered, for a playlist that has no cover and no tracks
CreateResponds ==
    \E r \in Responses :
        /\ pc = "create"
        /\ Outcome(r).outcome = "return"
        /\ ~playlists[pl].cover
        /\ \E order \in BulkOrders(playlists[pl]) :
                Set(ImportPlaylistTracks(Created([Seen(r) EXCEPT !.slept = 0]), order))

\* the exception leaves user_playlist_create's wrapper, import_playlists and import_all
CreateFails ==
    \E r \in Responses :
        /\ pc = "create"
        /\ Outcome(r).outcome = "raise"
        /\ Set(Fail(Seen(r), r.type))

(***************************************************************************)
(* The imports, wrapped call by wrapped call.                              *)
(***************************************************************************)
\* a chunk loop that records the identifiers of a failed chunk and goes on
ChunkFailedRecorded(s, exception) ==
    ChunkLoop([s EXCEPT !.json_not_imported = @ \o s.chunks_list[s.chunk_i]], s.chunk_i + 1)
\* the chunk call of import_from_json raised: the loop has no try
ChunkFailed(s, exception) == Fail(s, exception)

\* an exception leaves the wrapper where no caller catches it
Propagates ==
    \E o \in CallOutcomes :
        /\ pc \in {"create", "cover", "json_create", "json_add"}
        /\ o.outcome = "raise"
        /\ IF pc = "json_add"
           THEN Set(ChunkFailed([Called EXCEPT
                                    !.mutations = Append(@, ChunkMutation(Cur, FALSE))],
                                o.exception))
           ELSE Set(Fail(Called, o.exception))

\* import_all calls the importer of its loop's category
Ran == [Cur EXCEPT !.ran = Append(@, importing_items[cat])]

\* import_all reaches import_likes
ImportLikes ==
    /\ pc = "import_all"
    /\ cat <= Len(importing_items)
    /\ importing_items[cat] = "likes"
    /\ \E likes_tracks \in LikesLists(remaining) :
         \E order \in Permutations_(Len(WithAlbum(likes_tracks))) :
            Set(AddItemsToSpotify(
                    ResetSection([Ran EXCEPT !.remaining = @ - Len(likes_tracks)], "Likes"),
                    LikedTracks(likes_tracks, order), "Likes", "tracks"))

\* import_all reaches import_playlists
ImportPlaylists ==
    /\ pc = "import_all"
    /\ cat <= Len(importing_items)
    /\ importing_items[cat] = "playlists"
    /\ \E lists \in PlaylistLists(MaxPlaylists, remaining) :
            Set(NextPlaylist([Ran EXCEPT !.remaining = @ - TotalTracks(lists),
                                         !.playlists = lists], 1))

\* import_all reaches import_playlists on an account of one playlist more
ImportSeveralPlaylists ==
    /\ pc = "import_all"
    /\ cat <= Len(importing_items)
    /\ importing_items[cat] = "playlists"
    /\ \E lists \in PlaylistLists(MaxPlaylists + 1, remaining) :
            Set(NextPlaylist([Ran EXCEPT !.remaining = @ - TotalTracks(lists),
                                         !.playlists = lists], 1))

\* import_all reaches import_playlists on an account whose playlists are empty
ImportEmptyPlaylists ==
    /\ pc = "import_all"
    /\ cat <= Len(importing_items)
    /\ importing_items[cat] = "playlists"
    /\ \E lists \in PlaylistLists(MaxPlaylists, 0) :
            /\ \A k \in 1..Len(lists) : ~lists[k].cover
            /\ Set(NextPlaylist([Ran EXCEPT !.playlists = lists], 1))

\* import_all reaches import_albums
ImportAlbums ==
    /\ pc = "import_all"
    /\ cat <= Len(importing_items)
    /\ importing_items[cat] = "albums"
    /\ \E likes_albums \in AlbumLists(remaining) :
            Set(AddItemsToSpotify(
                    ResetSection([Ran EXCEPT !.remaining = @ - Len(likes_albums)], "Albums"),
                    ItemsOf(SortIfTimestamped(likes_albums)), "Albums", "albums"))

\* import_all reaches import_artists
ImportArtists ==
    /\ pc = "import_all"
    /\ cat <= Len(importing_items)
    /\ importing_items[cat] = "artists"
    /\ \E likes_artists \in ArtistLists(remaining) :
            Set(AddItemsToSpotify(
                    ResetSection([Ran EXCEPT !.remaining = @ - Len(likes_artists)], "Artists"),
                    ItemsOf(SortIfTimestamped(likes_artists)), "Artists", "artists"))

\* import_all leaves its loop: print_not_imported
PrintNotImported ==
    /\ pc = "import_all"
    /\ cat > Len(importing_items)
    /\ Set([Cur EXCEPT !.pc = "done"])

\* user_playlist_create returned the new playlist
CreateReturns ==
    \E o \in CallOutcomes :
        /\ pc = "create"
        /\ o.outcome = "return"
        /\ LET s == Created(Called)
           IN  IF playlists[pl].cover
               THEN Set(BeginCall(s, "cover"))
               ELSE \E order \in BulkOrders(playlists[pl]) :
                        Set(ImportPlaylistTracks(s, order))

\* playlist_upload_cover_image returned
CoverReturns ==
    \E o \in CallOutcomes :
        /\ pc = "cover"
        /\ o.outcome = "return"
        /\ \E order \in BulkOrders(playlists[pl]) :
                Set(ImportPlaylistTracks(Called, order))

\* a search of _import_item returned found_items
SearchReturns ==
    \E o \in CallOutcomes :
        /\ pc \in {"search", "fallback"}
        /\ o.outcome = "return"
        /\ SearchCanEnd(catalogue, searches[Len(searches)], o)
        /\ \E found_items \in SearchResults(catalogue, searches[Len(searches)]) :
                IF pc = "search"
                THEN Set(Searched(Called, found_items))
                ELSE Set(Found(Called, found_items))

\* a search of _import_item raised
SearchRaises ==
    \E o \in CallOutcomes :
        /\ pc \in {"search", "fallback"}
        /\ o.outcome = "raise"
        /\ SearchCanEnd(catalogue, searches[Len(searches)], o)
        /\ Set(NotResolved(Called, o.exception))

\* the mutation call of one item returned: sleep(1), then the next item
AddReturns ==
    \E o \in CallOutcomes :
        /\ pc = "add"
        /\ o.outcome = "return"
        /\ Set(AddSucceeded([Called EXCEPT
                                !.mutations = Append(@, ItemMutation(Cur, TRUE))]))

\* the mutation call of one item raised: except Exception
AddRaises ==
    \E o \in CallOutcomes :
        /\ pc = "add"
        /\ o.outcome = "raise"
        /\ Set(AddFailed([Called EXCEPT !.mutations = Append(@, ItemMutation(Cur, FALSE))],
                         spotify_items[add_i]))

\* import_from_json up to its first wrapped call
JsonLoad ==
    /\ pc = "import_from_json"
    /\ \E file \in JsonFiles :
            Set(JsonLoop([Cur EXCEPT !.tracks = SortJson(file), !.spotify_tracks = <<>>,
                                     !.json_not_imported = <<>>], 1))

\* user_playlist_create of import_from_json returned
JsonCreateReturns ==
    \E o \in CallOutcomes :
        /\ pc = "json_create"
        /\ o.outcome = "return"
        /\ LET id == Len(created) + 1
           IN  Set(ChunkLoop([Called EXCEPT
                                !.playlist_id = id,
                                !.created = Append(@, [title |-> "Imported from JSON",
                                                       id |-> id]),
                                !.chunks_list = chunks(spotify_tracks, ChunkSize)],
                             1))

\* user_playlist_add_tracks of one chunk returned
JsonAddReturns ==
    \E o \in CallOutcomes :
        /\ pc = "json_add"
        /\ o.outcome = "return"
        /\ Set(ChunkLoop([Called EXCEPT
                            !.mutations = Append(@, ChunkMutation(Cur, TRUE))],
                         chunk_i + 1))

(***************************************************************************)
(* Specifications.                                                         *)
(***************************************************************************)
Start ==
    [mode |-> "all", strict_search |-> FALSE, user |-> <<>>, pc |-> "me", retry |-> 1,
     importing_items |-> <<>>, cat |-> 1, not_imported |-> [k \in {} |-> <<>>],
     playlists |-> <<>>, pl |-> 0, playlist_id |-> NoPlaylist,
     items |-> <<>>, idx |-> 0, spotify_items |-> <<>>, section |-> "",
     api_method |-> "", add_i |-> 0, all_tracks |-> <<>>,
     tracks |-> <<>>, spotify_tracks |-> <<>>, json_not_imported |-> <<>>,
     chunks_list |-> <<>>, chunk_i |-> 0,
     slept |-> 0, response |-> NoResponse, rate_limited |-> 0, timeouts |-> 0,
     earlier_timeouts |-> 0, call |-> "me", ran |-> <<>>,
     error |-> "", searches |-> <<>>, results |-> <<>>, resolution |-> <<>>,
     spotify_src |-> <<>>, mutations |-> <<>>, created |-> <<>>, remaining |-> MaxItems,
     catalogue |-> [fixed |-> FALSE, missing |-> {}, failing |-> {}]]

\* the keys of self._importing_items, in the order of the dict
Categories == <<"likes", "playlists", "albums", "artists">>

\* for item in ignore_list: del self._importing_items[item]
ImportingItems(ignore_list) == SelectSeq(Categories, LAMBDA c : c \notin ignore_list)

\* Importer(...) is being constructed: the call of me() is in flight
InitRetry == \E strict \in BOOLEAN : Is([Start EXCEPT !.strict_search = strict])

NextRetry == TryAgain \/ MeReturns \/ MeRaises

SpecRetry == InitRetry /\ [][NextRetry]_vars

\* the ignore lists that leave one category to import
IgnoreLists ==
    {ignore_list \in SUBSET {"likes", "playlists", "albums", "artists"} :
        Cardinality(ignore_list) = 3}

\* main calls import_all on the constructed Importer
Init ==
    \E strict \in BOOLEAN, ignore_list \in IgnoreLists :
        Is([Start EXCEPT !.strict_search = strict, !.user = UserId, !.pc = "import_all",
                         !.importing_items = ImportingItems(ignore_list)])

Next ==
    \/ Propagates
    \/ ImportLikes
    \/ ImportPlaylists
    \/ ImportAlbums
    \/ ImportArtists
    \/ PrintNotImported
    \/ CreateReturns
    \/ CoverReturns
    \/ SearchReturns
    \/ SearchRaises
    \/ AddReturns
    \/ AddRaises

Spec == Init /\ [][Next]_vars

\* main calls import_all on an Importer constructed with any ignore list
InitAll ==
    \E strict \in BOOLEAN, ignore_list \in SUBSET {"likes", "playlists", "albums", "artists"} :
        Is([Start EXCEPT !.strict_search = strict, !.user = UserId, !.pc = "import_all",
                         !.importing_items = ImportingItems(ignore_list),
                         !.remaining = MaxAllItems])

SpecAll == InitAll /\ [][Next]_vars

\* main calls import_all on an Importer constructed with two categories ignored
InitPairs ==
    \E strict \in BOOLEAN, ignore_list \in SUBSET {"likes", "playlists", "albums", "artists"} :
        /\ Cardinality(ignore_list) = 2
        /\ Is([Start EXCEPT !.strict_search = strict, !.user = UserId, !.pc = "import_all",
                            !.importing_items = ImportingItems(ignore_list)])

SpecPairs == InitPairs /\ [][Next]_vars

\* main calls import_all with every category but the playlists ignored
InitPlaylists ==
    \E strict \in BOOLEAN :
        Is([Start EXCEPT !.strict_search = strict, !.user = UserId, !.pc = "import_all",
                         !.importing_items = ImportingItems({"likes", "albums", "artists"})])

NextPlaylists ==
    \/ Propagates
    \/ ImportSeveralPlaylists
    \/ PrintNotImported
    \/ CreateReturns
    \/ CoverReturns
    \/ SearchReturns
    \/ SearchRaises
    \/ AddReturns
    \/ AddRaises

SpecPlaylists == InitPlaylists /\ [][NextPlaylists]_vars

\* Importer(...) is being constructed with every category but the playlists ignored:
\* me() is in flight, and user_playlist_create follows it response by response
InitCalls ==
    \E strict \in BOOLEAN :
        Is([Start EXCEPT !.strict_search = strict,
                         !.importing_items = ImportingItems({"likes", "albums", "artists"})])

NextCalls ==
    \/ TryAgain
    \/ MeReturns
    \/ MeRaises
    \/ Main
    \/ ImportEmptyPlaylists
    \/ CreateTriesAgain
    \/ CreateResponds
    \/ CreateFails
    \/ PrintNotImported

SpecCalls == InitCalls /\ [][NextCalls]_vars

(***************************************************************************)
(* _import_item on its own: one call, for items whose labels are short,    *)
(* at the limit and over it.                                               *)
(***************************************************************************)
Chars(c, n) == [i \in 1..n |-> c]

\* lengths of a title or a name around the limit: under an artist of one character a
\* title of NameLimit - 4 makes a label of NameLimit
Lengths == {1, NameLimit - 4, NameLimit - 3, NameLimit, NameLimit + MaxOver}

\* a title with '- ' in it
DashedTitle == <<88, 45, 32, 89>>

ResolveItems ==
    {Entity(cls, 8, <<>>, artists, title, FALSE) :
        cls \in {"Track", "Album"},
        artists \in {<<NameA>>, <<NameA, NameB>>},
        title \in {Chars(88, n) : n \in Lengths} \cup {DashedTitle}}
    \cup {Entity("Artist", 9, Chars(65, n), <<>>, <<>>, FALSE) : n \in Lengths}
    \cup {Str(Chars(81, n)) : n \in Lengths}

\* _import_item(item) is called
InitResolve ==
    \E strict \in BOOLEAN, item \in ResolveItems :
        Is(BeginImportItem([Start EXCEPT !.mode = "item", !.strict_search = strict,
                                         !.user = UserId, !.items = <<item>>], 1))

NextResolve == SearchReturns \/ SearchRaises

SpecResolve == InitResolve /\ [][NextResolve]_vars

(***************************************************************************)
(* import_from_json.  The catalogue is fixed when the run starts: which of *)
(* the file's queries have no hit and which meet an error.                 *)
(***************************************************************************)
QueryAt(i) == JsonQuery(JsonTrack(i, {}))

Catalogues ==
    {[fixed |-> TRUE, missing |-> {}, failing |-> {}],
     [fixed |-> TRUE, missing |-> {QueryAt(1)}, failing |-> {QueryAt(2)}],
     [fixed |-> TRUE, missing |-> {QueryAt(ChunkSize)}, failing |-> {}]}

\* main calls import_from_json on the constructed Importer
InitJson ==
    \E strict \in BOOLEAN, c \in Catalogues :
        Is([Start EXCEPT !.mode = "json", !.strict_search = strict, !.user = UserId,
                         !.pc = "import_from_json", !.catalogue = c])

NextJson ==
    \/ JsonLoad
    \/ SearchReturns
    \/ SearchRaises
    \/ JsonCreateReturns
    \/ JsonAddReturns
    \/ Propagates

SpecJson == InitJson /\ [][NextJson]_vars


(***************************************************************************)
(* The retry wrapper, on the constructor's call (SpecRetry).               *)
(***************************************************************************)
\* the retry-after value of a response that carries one
RetryAfter(response_) == CHOOSE r \in response_.headers : TRUE

\* C4: a 429 never leaves the wrapper.  After a 429 with retry-after value r the wrapper
\* has slept exactly r + 1 seconds and the same call is in flight again, however many
\* 429s came before it, and a call that returns after them gives the caller its result.
C4_RateLimitedIsRetried ==
    /\ IsRateLimited(response) =>
            /\ pc = "me"
            /\ error = ""
            /\ response.headers # {} => slept = RetryAfter(response) + 1
    /\ pc = "failed" => ~IsRateLimited(response)
    /\ pc = "constructed" => user = UserId /\ response = OkResponse

\* ten 429s in a row, and the eleventh attempt returned
C4_TenRateLimitsThenSuccess ==
    /\ pc = "constructed"
    /\ user = UserId
    /\ rate_limited = MaxRateLimited
    /\ timeouts = 0

\* C5: a call that timed out n <= MAX_REQUEST_RETRIES times and then succeeds returns,
\* no sleep follows a timeout, the sixth timeout of a call leaves the wrapper as a
\* ReadTimeout and only the sixth does, and no attempt follows it.
C5_TimeoutsAreBounded ==
    /\ timeouts <= MAX_REQUEST_RETRIES + 1
    /\ pc \in {"me", "constructed"} => timeouts <= MAX_REQUEST_RETRIES
    /\ timeouts = MAX_REQUEST_RETRIES + 1 => pc = "failed" /\ error = "ReadTimeout"
    /\ (pc = "failed" /\ error = "ReadTimeout") =>
            timeouts = MAX_REQUEST_RETRIES + 1 /\ response = TimeoutResponse
    /\ response = TimeoutResponse => slept = 0
    /\ pc = "constructed" => user = UserId

\* five timeouts in a row, and the sixth attempt returned
C5_FiveTimeoutsThenSuccess ==
    /\ pc = "constructed"
    /\ user = UserId
    /\ timeouts = MAX_REQUEST_RETRIES
    /\ rate_limited = 0

\* C6: an error of the remote service that is neither a 429 nor a timeout leaves the
\* wrapper at once, whatever retries came before it in the call: the call is not in
\* flight again, nothing was slept, and the caller gets that error.
C6_OtherErrorsPropagate ==
    response \in ErrorResponses =>
        /\ pc = "failed"
        /\ error = "SpotifyException"
        /\ slept = 0
        /\ user = <<>>

\* the error came after 429s and timeouts of the same call
C6_ErrorAfterRetries ==
    /\ response \in ErrorResponses
    /\ pc = "failed"
    /\ rate_limited > 0
    /\ timeouts > 0

(***************************************************************************)
(* The category importers (Spec).                                          *)
(***************************************************************************)
Range(f) == {f[x] : x \in DOMAIN f}

\* the mutation calls that ended in the call of _add_items_to_spotify in progress (in
\* the last one, between two calls)
Submitted ==
    IF add_i = 0 THEN <<>>
    ELSE SubSeq(mutations, Len(mutations) - add_i + 2, Len(mutations))

\* the items the first loop went past whose resolution raised an exception it caught
Unresolved ==
    SelectSeq([k \in 1..Len(resolution) |-> k],
              LAMBDA k : resolution[k] \in {"NotFoundException", "SpotifyException"})

\* C1: the identifiers of a category are submitted in ascending order of the timestamps
\* their items carry in the source's list, whatever order the source returns them in.
C1_SubmittedOldestFirst ==
    \A i, j \in 1..Len(Submitted) :
        i < j => items[Submitted[i].src].ts <= items[Submitted[j].src].ts

\* C2: the second loop submits the resolved identifiers one by one in their order, each
\* once, to the endpoint of the category; the failure list gains the identifiers whose
\* call raised, in that order, and nothing else; and the loop goes on to the last
\* identifier whatever call raised.
C2_ApplyIsolatesFailures ==
    LET failed == SelectSeq(Submitted, LAMBDA m : ~m.ok)
        recorded == not_imported[section]
    IN  add_i >= 1 =>
            /\ Len(Submitted) <= Len(spotify_items)
            /\ \A k \in 1..Len(Submitted) :
                    /\ Submitted[k].ids = <<spotify_items[k]>>
                    /\ Submitted[k].endpoint = Endpoint(api_method)
            /\ Len(recorded) = Len(Unresolved) + Len(failed)
            /\ \A k \in 1..Len(failed) : recorded[Len(Unresolved) + k] = failed[k].ids[1]
            /\ pc = "add" => Len(Submitted) = add_i - 1
            /\ pc # "add" => Len(Submitted) = Len(spotify_items)

\* the first of two calls raised and the second returned
C2_FailureThenSuccess ==
    /\ pc # "add"
    /\ Len(Submitted) = 2
    /\ ~Submitted[1].ok
    /\ Submitted[2].ok
    /\ not_imported[section] = <<spotify_items[1]>>

\* C3: every item of the fetched list the first loop went past was searched for,
\* whatever its availability flag: its identifier is among those to submit, or its
\* label is in the failure list of the category.
C3_EveryItemIsResolved ==
    \A k \in 1..Len(resolution) :
        \/ resolution[k] = "resolved" /\ k \in Range(spotify_src)
        \/ /\ resolution[k] \in {"NotFoundException", "SpotifyException"}
           /\ {ItemName(items[k]), TitleOrStr(items[k])} \cap Range(not_imported[section]) # {}

\* C9: an item whose searches found nothing has its label in the failure list (the
\* list begins with the labels of the unresolved items, in their order), no mutation
\* call is made for it, and the first loop goes on: it ends past the last item unless a
\* search timed out, a NotFoundException never reaches main, and every identifier
\* resolved is submitted.
C9_NotFoundSkipsOneItem ==
    LET recorded == IF section \in DOMAIN not_imported THEN not_imported[section] ELSE <<>>
    IN  /\ Len(Unresolved) <= Len(recorded)
        /\ \A i \in 1..Len(Unresolved) :
                resolution[Unresolved[i]] = "NotFoundException" =>
                    /\ recorded[i] = ItemName(items[Unresolved[i]])
                    /\ Unresolved[i] \notin Range(spotify_src)
                    /\ \A m \in 1..Len(Submitted) : Submitted[m].src # Unresolved[i]
        /\ error # "NotFoundException"
        /\ pc \in {"search", "fallback"} => Len(resolution) = idx - 1
        /\ pc \in {"add", "import_all", "create", "cover", "done"} =>
                Len(resolution) = Len(items)
        /\ Len(spotify_items) = Cardinality({k \in 1..Len(resolution) : resolution[k] = "resolved"})
        /\ pc \in {"import_all", "create", "cover", "done"} =>
                Len(Submitted) = Len(spotify_items)

\* the first item was not found, the second was resolved and submitted
C9_NotFoundThenResolved ==
    /\ pc \in {"import_all", "create", "done"}
    /\ Len(resolution) = 2
    /\ resolution[1] = "NotFoundException"
    /\ resolution[2] = "resolved"
    /\ Len(Submitted) = 1
    /\ Submitted[1].src = 2
    /\ Submitted[1].ok
    /\ not_imported[section] = <<ItemName(items[1])>>

(***************************************************************************)
(* The resolver (SpecResolve).                                             *)
(***************************************************************************)
\* C7: a second search is made exactly when the first found nothing, strict search is
\* off, the item is no Artist and it has more than one artist; its query is the first
\* artist's name, a space and the title; otherwise one search is made.
C7_FallbackExactlyWhen ==
    LET item == items[1]
        conditions ==
            /\ Len(results) >= 1
            /\ results[1] = <<>>
            /\ ~strict_search
            /\ item.cls # "Artist"
            /\ Len(item.artists) > 1
    IN  /\ Len(searches) \in {1, 2}
        /\ (Len(searches) = 2) = conditions
        /\ Len(searches) = 2 => searches[2] = item.artists[1] \o <<32>> \o item.title
        /\ (strict_search \/ item.cls = "str") => Len(searches) = 1

\* the second search was made and found the item
C7_FallbackFound ==
    /\ mode = "item"
    /\ pc = "done"
    /\ Len(searches) = 2
    /\ results[1] = <<>>
    /\ results[2] # <<>>

\* C8: whatever the item (Track, Album, Artist or query string), a label of more than
\* 100 characters is cut to 100 before the search, so that the query of the search is
\* never longer than 100 characters.
C8_QueryWithinLimit ==
    LET item == items[1]
        label == IF item.cls = "str" THEN item.name ELSE FullName(item)
    IN  /\ Len(label) > NameLimit => Len(ItemName(item)) = NameLimit
        /\ Len(searches[1]) <= NameLimit

(***************************************************************************)
(* The bulk import (SpecJson).                                             *)
(***************************************************************************)
\* C10: the N identifiers resolved, which follow the order of the sorted file, go to
\* the new playlist in ceil(N / 50) calls made one after the other: every chunk holds
\* 50 identifiers but the last, which holds the rest, and the chunks in the order of
\* their calls make up the resolved sequence.
C10_ChunksPartitionResolved ==
    LET N == Len(spotify_tracks)
        count == (N + ChunkSize - 1) \div ChunkSize
        resolved == SelectSeq([k \in 1..Len(resolution) |-> k],
                              LAMBDA k : resolution[k] = "resolved")
    IN  /\ \A i \in 1..(Len(tracks) - 1) : SortKey(tracks[i]) <= SortKey(tracks[i + 1])
        /\ spotify_tracks =
                [i \in 1..Len(resolved) |-> SpotifyId(JsonQuery(tracks[resolved[i]]))]
        /\ chunk_i = 0 => mutations = <<>>
        /\ chunk_i >= 1 =>
            /\ Len(chunks_list) = count
            /\ \A k \in 1..count :
                    Len(chunks_list[k]) =
                        IF k < count THEN ChunkSize ELSE N - ChunkSize * (count - 1)
            /\ N % ChunkSize # 0 => Len(chunks_list[count]) = N % ChunkSize
            /\ \A k \in 1..count : \A i \in 1..Len(chunks_list[k]) :
                    chunks_list[k][i] = spotify_tracks[(k - 1) * ChunkSize + i]
            /\ Len(mutations) <= count
            /\ \A m \in 1..Len(mutations) :
                    /\ mutations[m].ids = chunks_list[m]
                    /\ mutations[m].endpoint = "user_playlist_add_tracks"
                    /\ mutations[m].playlist_id = created[Len(created)].id
                    /\ m < Len(mutations) => mutations[m].ok
            /\ pc = "json_add" => Len(mutations) = chunk_i - 1
            /\ pc = "done" => Len(mutations) = count /\ \A m \in 1..count : mutations[m].ok

\* a file with timestamps whose 120 tracks are all resolved: three calls, of 50, 50 and
\* 20 identifiers
C10_ThreeChunks ==
    /\ pc = "done"
    /\ Len(spotify_tracks) = 2 * ChunkSize + MaxJsonTail
    /\ HasTimestamp(tracks[1])
    /\ Len(mutations) = 3
    /\ Len(mutations[1].ids) = ChunkSize
    /\ Len(mutations[2].ids) = ChunkSize
    /\ Len(mutations[3].ids) = MaxJsonTail

(***************************************************************************)
(* The playlists (Spec).                                                   *)
(***************************************************************************)
\* the tracks of a collective playlist are being imported
ImportingCollective ==
    /\ pc \in {"search", "fallback", "add"}
    /\ api_method = "playlist_tracks"
    /\ playlists[pl].collective

\* C11: the list rebuilt for a collective playlist follows the sorted references,
\* whatever order the bulk fetch returned the tracks in: its i-th track is the track of
\* the i-th sorted reference.
C11_RebuiltInSortedOrder ==
    ImportingCollective =>
        LET sorted == SortIfTimestamped(playlists[pl].tracks)
        IN  /\ Len(all_tracks) = Len(sorted)
            /\ Len(items) = Len(sorted)
            /\ \A i \in 1..Len(items) :
                    /\ [items[i] EXCEPT !.ts = 0] = sorted[i].ent
                    /\ items[i].ts = TimestampOf(sorted[i])

\* the bulk fetch returned two tracks in the other order than the sorted references
C11_FetchedOutOfOrder ==
    /\ ImportingCollective
    /\ Len(items) = 2
    /\ items[1].ts < items[2].ts
    /\ all_tracks[1].id = items[2].id
    /\ all_tracks[2].id = items[1].id
    /\ items[1].id # items[2].id

(***************************************************************************)
(* The full import over any ignore list (SpecAll).                         *)
(***************************************************************************)
\* the category whose importer passes api_method_ to _add_items_to_spotify
CategoryOf(api_method_) ==
    CASE api_method_ = "tracks" -> "likes"
      [] api_method_ = "playlist_tracks" -> "playlists"
      [] api_method_ = "albums" -> "albums"
      [] api_method_ = "artists" -> "artists"

EndpointsOf(categories) ==
    {Endpoint(m) : m \in {m \in {"tracks", "playlist_tracks", "albums", "artists"} :
                            CategoryOf(m) \in categories}}

\* the categories left are in the order likes, playlists, albums, artists; the
\* importers called so far are the first of them, each called once; only a category
\* whose importer was called has issued a call; and at the report all were called
InOrderOnce ==
    /\ importing_items = SelectSeq(Categories, LAMBDA c : c \in Range(importing_items))
    /\ Len(ran) <= Len(importing_items)
    /\ ran = SubSeq(importing_items, 1, Len(ran))
    /\ api_method # "" => CategoryOf(api_method) \in Range(ran)
    /\ \A m \in 1..Len(mutations) : mutations[m].endpoint \in EndpointsOf(Range(ran))
    /\ created # <<>> => "playlists" \in Range(ran)
    /\ pc \in CallSites => ran # <<>>
    /\ pc = "done" => ran = importing_items

\* an exception no caller catches ended the run: a search that used up its timeouts, or
\* the creation of a playlist or the upload of its cover
Fatal ==
    /\ pc = "failed"
    /\ \/ call \in {"search", "fallback"} /\ error = "ReadTimeout"
       \/ call \in {"create", "cover"} /\ error \in {"ReadTimeout", "SpotifyException"}

\* the step that continues the run from where it is can be taken: at import_all's loop
\* the next importer or the report, at a wrapped call its return or its exception
CanGoOn ==
    \/ /\ pc = "import_all"
       /\ ENABLED (ImportLikes \/ ImportPlaylists \/ ImportAlbums \/ ImportArtists
                        \/ PrintNotImported)
    \/ pc = "create" /\ ENABLED (Propagates \/ CreateReturns)
    \/ pc = "cover" /\ ENABLED (Propagates \/ CoverReturns)
    \/ pc \in {"search", "fallback"} /\ ENABLED (SearchReturns \/ SearchRaises)
    \/ pc = "add" /\ ENABLED (AddReturns \/ AddRaises)

\* C12 as stated: the categories left run once each in the fixed order, no other
\* category issues a call, and no run ends short of the end-of-run report.
C12_AlwaysCompletes ==
    /\ InOrderOnce
    /\ pc # "failed"

\* C12, amended: the categories left run once each in the fixed order, no other
\* category issues a call, and the run has a next step until it is at the end-of-run
\* report, whatever failures were recorded, or at an exception no caller catches.
C12_CompletesUnlessFatal ==
    /\ InOrderOnce
    /\ pc = "failed" => Fatal
    /\ pc \in {"done", "failed"} \/ CanGoOn

\* the report is reached after likes recorded a failure and albums ran
C12_ReportAfterFailures ==
    /\ pc = "done"
    /\ ran = <<"likes", "albums">>
    /\ not_imported["Likes"] # <<>>

\* C13: what the report holds under a name it holds under that name after every step.
C13_ReportOnlyGrows ==
    [][\A k \in DOMAIN not_imported :
            /\ k \in DOMAIN not_imported'
            /\ Range(not_imported[k]) \subseteq Range(not_imported'[k])]_vars

\* C14: no label is twice in a list of the report.
C14_LabelsOnce ==
    \A k \in DOMAIN not_imported :
        \A i, j \in 1..Len(not_imported[k]) :
            not_imported[k][i] = not_imported[k][j] => i = j

\* C15 as stated: once a search has raised a SpotifyException the category's pass is
\* over: no further item is resolved and no mutation call is made.
C15_SearchErrorAborts ==
    \A i \in 1..Len(resolution) :
        resolution[i] = "SpotifyException" =>
            /\ Len(resolution) = i
            /\ pc \notin {"search", "fallback", "add"}
            /\ Submitted = <<>>

\* C15, amended: an item whose search raised a SpotifyException has its title (the
\* item itself when it has none) in the failure list, no identifier is kept for it and
\* the first loop goes on: the exception never reaches main, the loop ends past the
\* last item unless a search timed out, and every identifier resolved is submitted.
C15_SearchErrorSkipsOneItem ==
    LET recorded == IF section \in DOMAIN not_imported THEN not_imported[section] ELSE <<>>
    IN  /\ Len(Unresolved) <= Len(recorded)
        /\ \A i \in 1..Len(Unresolved) :
                resolution[Unresolved[i]] = "SpotifyException" =>
                    /\ recorded[i] = TitleOrStr(items[Unresolved[i]])
                    /\ Unresolved[i] \notin Range(spotify_src)
        /\ pc = "failed" /\ call \in {"search", "fallback"} => error # "SpotifyException"
        /\ pc \in {"add", "import_all", "create", "cover", "done"} =>
                Len(resolution) = Len(items)
        /\ pc \in {"import_all", "create", "cover", "done"} =>
                /\ Len(Submitted) = Len(spotify_items)
                /\ \A m \in 1..Len(Submitted) :
                        resolution[Submitted[m].src] = "resolved"

\* the first search raised a SpotifyException, the second item was resolved and
\* submitted
C15_SearchErrorThenResolved ==
    /\ pc \in {"import_all", "create", "done"}
    /\ Len(resolution) = 2
    /\ resolution[1] = "SpotifyException"
    /\ resolution[2] = "resolved"
    /\ Len(Submitted) = 1
    /\ Submitted[1].src = 2
    /\ Submitted[1].ok
    /\ not_imported[section] = <<TitleOrStr(items[1])>>
    /\ TitleOrStr(items[1]) # ItemName(items[1])

\* C16: the m-th mutation call of a pass carries the m-th resolved identifier and no
\* other, a call is in flight only when the calls before it have ended, and the time
\* slept since the last call ended is 1 second when it succeeded and none when it
\* failed.
C16_OneByOneWithPause ==
    /\ \A m \in 1..Len(Submitted) :
            /\ Submitted[m].ids = <<spotify_items[m]>>
            /\ Submitted[m].src = spotify_src[m]
    /\ pc = "add" => Len(Submitted) = add_i - 1
    /\ call = "add" /\ Len(Submitted) >= 1 =>
            slept = IF Submitted[Len(Submitted)].ok THEN AddPause ELSE 0

\* the second call is in flight with no pause after the first failed, and the pass
\* ends 1 second after the second succeeded
C16_PauseAfterSuccessOnly ==
    /\ call = "add"
    /\ pc # "add"
    /\ Len(Submitted) = 2
    /\ ~Submitted[1].ok
    /\ Submitted[2].ok
    /\ Submitted[1].ids # Submitted[2].ids
    /\ slept = AddPause

(***************************************************************************)
(* The playlists of an account (SpecPlaylists).                            *)
(***************************************************************************)
\* the source playlist the last pass of _add_items_to_spotify was called for
Owner == IF pc \in {"search", "fallback", "add"} THEN pl ELSE pl - 1

\* C17: the k-th create call is made for the k-th source playlist, under its title, and
\* has returned before a search or an add for that playlist is in flight; when the
\* importer has returned every source playlist has one destination playlist; and each
\* add call of a pass carries an identifier resolved from a track of the pass's own
\* playlist and targets the identifier that playlist's create call returned.
C17_OwnPlaylistFirst ==
    /\ Len(created) <= Len(playlists)
    /\ \A k \in 1..Len(created) :
            /\ created[k].title = playlists[k].title
            /\ \A j \in 1..Len(created) : created[j].id = created[k].id => j = k
    /\ pc = "create" => Len(created) = pl - 1
    /\ pc \in {"cover", "search", "fallback", "add"} =>
            /\ Len(created) = pl
            /\ playlist_id = created[pl].id
    /\ pc \in {"import_all", "done"} /\ ran # <<>> => Len(created) = Len(playlists)
    /\ \A m \in 1..Len(Submitted) :
            /\ Submitted[m].endpoint = "user_playlist_add_tracks"
            /\ Submitted[m].playlist_id = created[Owner].id
            /\ items[Submitted[m].src].id \in
                    {playlists[Owner].tracks[t].ent.id : t \in 1..Len(playlists[Owner].tracks)}

\* two playlists were created in the source's order; no track of the first resolved,
\* and the track of the second was added to the second
C17_SecondPlaylistOwnTrack ==
    /\ pc = "done"
    /\ Len(created) = 2
    /\ playlists[1].tracks # <<>>
    /\ playlists[1].tracks # playlists[2].tracks
    /\ Len(mutations) = 1
    /\ mutations[1].ok
    /\ mutations[1].playlist_id = created[2].id
    /\ created[2].id # created[1].id

(***************************************************************************)
(* Two wrapped calls in a row (SpecCalls).                                 *)
(***************************************************************************)
\* C18: the wrapper's counter is one more than the ReadTimeouts the call in flight has
\* met, whatever the 429 answers among them and the ReadTimeouts of the calls before;
\* a call that has met MAX_REQUEST_RETRIES of them or fewer goes on, and a ReadTimeout
\* ends the run exactly when it is the call's own sixth.
C18_TimeoutsCountedPerCall ==
    /\ pc \in {"me", "create"} =>
            /\ retry = timeouts + 1
            /\ timeouts <= MAX_REQUEST_RETRIES
    /\ pc = "failed" /\ error = "ReadTimeout" =>
            /\ timeouts = MAX_REQUEST_RETRIES + 1
            /\ retry = MAX_REQUEST_RETRIES + 1
    /\ timeouts = MAX_REQUEST_RETRIES + 1 => pc = "failed" /\ error = "ReadTimeout"

\* me() returned after five ReadTimeouts; user_playlist_create met 429 answers and
\* failed at its own sixth ReadTimeout
C18_SixthOwnTimeout ==
    /\ pc = "failed"
    /\ call = "create"
    /\ error = "ReadTimeout"
    /\ earlier_timeouts = MAX_REQUEST_RETRIES
    /\ timeouts = MAX_REQUEST_RETRIES + 1
    /\ rate_limited > 0

\* C19: when the call is in flight again after a 429, the wrapper has slept at least 1
\* second since that answer.
C19_SleepsBeforeRetry ==
    IsRateLimited(response) /\ pc = "me" => slept >= 1

(***************************************************************************)
(* Two categories in a run (SpecPairs).                                    *)
(***************************************************************************)
\* C20: the resolution loop never goes past an item whose search timed out: the
\* ReadTimeout ends the run at that item, with nothing recorded for it, no later item
\* resolved, no mutation call of the pass made and no later category started, and no
\* step follows, so the report is never printed.  An exception of a mutation call, a
\* ReadTimeout included, never ends the run: the identifier is in the failure list.
C20_SearchTimeoutEndsRun ==
    /\ [](/\ \A i \in 1..Len(resolution) : resolution[i] # "ReadTimeout"
          /\ pc = "failed" /\ call \in {"search", "fallback"} =>
                /\ error = "ReadTimeout"
                /\ Len(resolution) = idx - 1
                /\ idx <= Len(items)
                /\ Len(not_imported[section]) = Len(Unresolved)
                /\ add_i = 0
                /\ api_method # "playlist_tracks" =>
                        \A m \in 1..Len(mutations) :
                            mutations[m].endpoint # Endpoint(api_method)
                /\ ran[Len(ran)] = CategoryOf(api_method)
          /\ pc = "failed" => call # "add"
          /\ \A m \in 1..Len(Submitted) :
                ~Submitted[m].ok => Submitted[m].ids[1] \in Range(not_imported[section]))
    /\ [][pc = "failed" => pc' = "failed"]_vars

\* the search of the first of two items timed out in the first of two categories:
\* nothing is recorded or submitted and the second category has not run
C20_TimeoutAtFirstItem ==
    /\ pc = "failed"
    /\ call = "search"
    /\ error = "ReadTimeout"
    /\ Len(items) = 2
    /\ idx = 1
    /\ not_imported[section] = <<>>
    /\ mutations = <<>>
    /\ Len(ran) = 1
    /\ Len(importing_items) = 2

\* C21: no playlist is created and no chunk submitted while a query is being resolved;
\* once the resolution loop has ended one playlist and no more is created, whether or
\* not an identifier was resolved; the calls made carry the first chunks of the chunk
\* sequence in their order, all but the last having returned; a chunk call that raised
\* ends the run with its exception, and no identifier of that chunk or of a later one
\* is in the list of the tracks not imported, which holds the unresolved queries only.
C21_SubmittedChunksArePrefix ==
    /\ pc \in {"import_from_json", "search", "fallback"} =>
            created = <<>> /\ mutations = <<>>
    /\ pc = "json_create" \/ created # <<>> => Len(resolution) = Len(tracks)
    /\ Len(created) <= 1
    /\ pc \in {"json_add", "done"} => Len(created) = 1
    /\ mutations # <<>> =>
            /\ Len(created) = 1
            /\ chunks_list = chunks(spotify_tracks, ChunkSize)
            /\ Len(mutations) <= Len(chunks_list)
    /\ \A m \in 1..Len(mutations) :
            /\ mutations[m].ids = chunks_list[m]
            /\ m < Len(mutations) => mutations[m].ok
            /\ ~mutations[m].ok =>
                    /\ pc = "failed"
                    /\ call = "json_add"
                    /\ error \in {"ReadTimeout", "SpotifyException"}
                    /\ \A k \in m..Len(chunks_list) : \A i \in 1..Len(chunks_list[k]) :
                            chunks_list[k][i] \notin Range(json_not_imported)
    /\ pc = "failed" /\ call = "json_add" =>
            /\ Len(mutations) = chunk_i
            /\ ~mutations[chunk_i].ok
    /\ Len(json_not_imported) = Len(Unresolved)

\* the second of three chunks failed: two calls were made, the third chunk was not
\* submitted and the only track not imported is the query that found nothing
C21_SecondChunkFailed ==
    /\ pc = "failed"
    /\ call = "json_add"
    /\ Len(chunks_list) = 3
    /\ Len(mutations) = 2
    /\ mutations[1].ok
    /\ ~mutations[2].ok
    /\ Len(json_not_imported) = 1

=============================================================================
